---------------------------- MODULE Spec2Model ----------------------------
(***************************************************************************)
(* Calendar slot arithmetic of programming-logic-evaluation:               *)
(*   isSlotAvailable, isSlotAvailableWithEvents, isSlotAvailableWithBuffer, *)
(*   listAvailable30MinuteSlots, listAvailable30MinuteSlotsMultiplePerson   *)
(*   and intersectRanges.                                                   *)
(*                                                                         *)
(* A Date is the number of whole minutes since 1970-01-01T00:00Z (every    *)
(* quantity the code adds to a Date is a whole number of minutes).  A      *)
(* TimeOfDay is [hours, minutes].  An optional buffer is the record        *)
(* [present, before, after]; `event.buffer?.before || 0` reads `before`    *)
(* only when present.  A call that ends in a TypeError returns             *)
(* [threw |-> TRUE, value |-> <<>>].                                       *)
(***************************************************************************)
EXTENDS Integers, Sequences, FiniteSets, TLC

VARIABLES op, availability, events, range, slot, attendees, rangeA, rangeB,
          tzOffset, result

vars == <<op, availability, events, range, slot, attendees, rangeA, rangeB,
          tzOffset, result>>

---------------------------------------------------------------------------
(* Program constants *)

\* 24 * 60 minutes: one UTC calendar day (setUTCDate(+1), 24 * 60 * 60 * 1000 ms)
MinutesPerDay == 1440

\* length of an emitted slot, 30 * 60 * 1000 ms
SlotMinutes == 30

\* Date.UTC(..., range.hours + 30, range.minutes)
BlockHours == 30

\* getUTCDay() of day 0 (1970-01-01 was a Thursday)
EpochWeekday == 4

---------------------------------------------------------------------------
(* Bounds of the model *)

\* time-of-day values are 09:00 + k * 15 min, k \in 0..MaxTodSteps
MaxTodSteps == 4

\* longest range (pair-sequence) of an availability entry
MaxRangeLen == 4

\* longest list of events of one person
MaxEvents == 1

\* longest list of attendees
MaxAttendees == 2

\* the dates of the model are those of 1970-01-04 (a Sunday) + 0..MaxDayOffset days
MaxDayOffset == 1

---------------------------------------------------------------------------
(* Dates *)

getUTCDay(t) == (EpochWeekday + (t \div MinutesPerDay)) % 7

\* Date.UTC(year, month, date of t, hours, minutes)
DateUTC(t, hours, minutes) ==
  (t \div MinutesPerDay) * MinutesPerDay + hours * 60 + minutes

\* new Date(t).setUTCHours(hours, minutes, 0, 0)
setUTCHours(t, hours, minutes) == DateUTC(t, hours, minutes)

\* new Date(t).setHours(hours, minutes, 0, 0) in a zone tz minutes east of UTC
setHours(t, hours, minutes, tz) ==
  ((t + tz) \div MinutesPerDay) * MinutesPerDay + hours * 60 + minutes - tz

minutesOf(tod) == tod.hours * 60 + tod.minutes

Ok(v) == [threw |-> FALSE, value |-> v]
TypeError == [threw |-> TRUE, value |-> <<>>]

---------------------------------------------------------------------------
(* intersectRanges *)

\* intersectLoop with the overlap test maxStart <= minEnd
RECURSIVE intersectLoopInclusive(_, _, _, _, _)
intersectLoopInclusive(A, B, i, j, acc) ==
  IF ~(i <= Len(A) /\ j <= Len(B)) THEN Ok(acc)
  ELSE IF i + 1 > Len(A) \/ j + 1 > Len(B) THEN TypeError
  ELSE
    LET startA == A[i]
        endA == A[i + 1]
        startB == B[j]
        endB == B[j + 1]
        maxStart == IF minutesOf(startA) > minutesOf(startB) THEN startA ELSE startB
        minEnd == IF minutesOf(endA) < minutesOf(endB) THEN endA ELSE endB
        acc2 == IF minutesOf(maxStart) <= minutesOf(minEnd)
                THEN acc \o <<maxStart, minEnd>> ELSE acc
    IN IF minutesOf(endA) < minutesOf(endB)
       THEN intersectLoopInclusive(A, B, i + 2, j, acc2)
       ELSE intersectLoopInclusive(A, B, i, j + 2, acc2)

RECURSIVE intersectLoop(_, _, _, _, _)
intersectLoop(A, B, i, j, acc) ==
  IF ~(i <= Len(A) /\ j <= Len(B)) THEN Ok(acc)
  ELSE IF i + 1 > Len(A) \/ j + 1 > Len(B) THEN TypeError
  ELSE
    LET startA == A[i]
        endA == A[i + 1]
        startB == B[j]
        endB == B[j + 1]
        maxStart == IF minutesOf(startA) > minutesOf(startB) THEN startA ELSE startB
        minEnd == IF minutesOf(endA) < minutesOf(endB) THEN endA ELSE endB
        acc2 == IF minutesOf(maxStart) < minutesOf(minEnd)
                THEN acc \o <<maxStart, minEnd>> ELSE acc
    IN IF minutesOf(endA) < minutesOf(endB)
       THEN intersectLoop(A, B, i + 2, j, acc2)
       ELSE intersectLoop(A, B, i, j + 2, acc2)

intersectRanges(A, B) == intersectLoop(A, B, 1, 1, <<>>)

---------------------------------------------------------------------------
(* Buffered event bounds: event.buffer?.before || 0, event.buffer?.after || 0 *)

bufferBefore(event) == IF event.buffer.present THEN event.buffer.before ELSE 0
bufferAfter(event) == IF event.buffer.present THEN event.buffer.after ELSE 0

calculateEventStartWithBuffer(event) == event.start - bufferBefore(event)
calculateEventEndWithBuffer(event) == event.end + bufferAfter(event)

calculateSlotEndTime(start, durationM) == start + durationM

\* availability.include.find(entry => entry.weekday === weekday): index, 0 = undefined
findAvailabilityForWeekday(avail, weekday) ==
  LET hits == { k \in 1..Len(avail.include) : avail.include[k].weekday = weekday }
  IN IF hits = {} THEN 0 ELSE CHOOSE k \in hits : \A h \in hits : k <= h

---------------------------------------------------------------------------
(* listAvailable30MinuteSlots *)

\* the values currentDate takes in the day loop
RECURSIVE dayLoop(_, _)
dayLoop(currentDate, endRange) ==
  IF currentDate <= endRange
  THEN <<currentDate>> \o dayLoop(currentDate + MinutesPerDay, endRange)
  ELSE <<>>

\* eventConflicts without its third case (slot contains event)
eventConflictsTwoWay(currentSlotStart, currentSlotEnd, event) ==
  LET eventStart == event.start - bufferBefore(event)
      eventEnd == event.end + bufferAfter(event)
  IN \/ (currentSlotStart >= eventStart /\ currentSlotStart < eventEnd)
     \/ (currentSlotEnd > eventStart /\ currentSlotEnd <= eventEnd)

\* eventConflicts with the buffer before the event added to its start
eventConflictsBufferAdded(currentSlotStart, currentSlotEnd, event) ==
  LET eventStart == event.start + bufferBefore(event)
      eventEnd == event.end + bufferAfter(event)
  IN \/ (currentSlotStart >= eventStart /\ currentSlotStart < eventEnd)
     \/ (currentSlotEnd > eventStart /\ currentSlotEnd <= eventEnd)
     \/ (currentSlotStart <= eventStart /\ currentSlotEnd >= eventEnd)

\* the three-way conflict test of one event against [currentSlotStart, currentSlotEnd]
eventConflicts(currentSlotStart, currentSlotEnd, event) ==
  LET eventStart == event.start - bufferBefore(event)
      eventEnd == event.end + bufferAfter(event)
  IN \/ (currentSlotStart >= eventStart /\ currentSlotStart < eventEnd)
     \/ (currentSlotEnd > eventStart /\ currentSlotEnd <= eventEnd)
     \/ (currentSlotStart <= eventStart /\ currentSlotEnd >= eventEnd)

hasConflict(currentSlotStart, currentSlotEnd, evs) ==
  \E k \in 1..Len(evs) : eventConflicts(currentSlotStart, currentSlotEnd, evs[k])

\* the while loop over one range entry
RECURSIVE walkBlock(_, _, _, _, _)
walkBlock(currentSlotStart, rangeEndTime, evs, startRange, endRange) ==
  IF ~(currentSlotStart < rangeEndTime) THEN <<>>
  ELSE
    LET currentSlotEnd == currentSlotStart + SlotMinutes
    IN IF currentSlotStart < startRange \/ currentSlotEnd > endRange THEN <<>>
       ELSE (IF ~hasConflict(currentSlotStart, currentSlotEnd, evs)
             THEN <<[start |-> currentSlotStart, durationM |-> SlotMinutes]>>
             ELSE <<>>)
            \o walkBlock(currentSlotEnd, rangeEndTime, evs, startRange, endRange)

\* dayAvailability.range.forEach(...) from entry k on
RECURSIVE walkRange(_, _, _, _, _, _)
walkRange(dayRange, k, currentDate, evs, startRange, endRange) ==
  IF k > Len(dayRange) THEN <<>>
  ELSE
    LET currentSlotStart == DateUTC(currentDate, dayRange[k].hours, dayRange[k].minutes)
        rangeEndTime == DateUTC(currentDate, dayRange[k].hours + BlockHours, dayRange[k].minutes)
    IN walkBlock(currentSlotStart, rangeEndTime, evs, startRange, endRange)
       \o walkRange(dayRange, k + 1, currentDate, evs, startRange, endRange)

\* the body of the day loop for one currentDate
slotsOfDay(avail, evs, currentDate, startRange, endRange) ==
  LET dayAvailability == findAvailabilityForWeekday(avail, getUTCDay(currentDate))
  IN IF dayAvailability = 0 THEN <<>>
     ELSE walkRange(avail.include[dayAvailability].range, 1, currentDate, evs,
                    startRange, endRange)

RECURSIVE slotsOfDays(_, _, _, _, _, _)
slotsOfDays(avail, evs, days, d, startRange, endRange) ==
  IF d > Len(days) THEN <<>>
  ELSE slotsOfDay(avail, evs, days[d], startRange, endRange)
       \o slotsOfDays(avail, evs, days, d + 1, startRange, endRange)

listAvailable30MinuteSlots(avail, evs, rng) ==
  slotsOfDays(avail, evs, dayLoop(rng[1], rng[2]), 1, rng[1], rng[2])

---------------------------------------------------------------------------
(* isSlotAvailableWithBuffer *)

\* ranges.some(range => ...): rangeStart by setHours (local time), rangeEnd 24 h later
isSlotInRange(slotStart, slotEnd, ranges, tz) ==
  \E k \in 1..Len(ranges) :
    LET rangeStart == setHours(slotStart, ranges[k].hours, ranges[k].minutes, tz)
        rangeEnd == rangeStart + MinutesPerDay
    IN slotStart >= rangeStart /\ slotEnd <= rangeEnd

isSlotWithinAvailabilityB(slotStart, slotEnd, avail, tz) ==
  \E k \in 1..Len(avail.include) :
    /\ avail.include[k].weekday = getUTCDay(slotStart)
    /\ isSlotInRange(slotStart, slotEnd, avail.include[k].range, tz)

isSlotConflictedWithEventsB(slotStart, slotEnd, evs) ==
  \E k \in 1..Len(evs) :
    /\ slotStart < calculateEventEndWithBuffer(evs[k])
    /\ slotEnd > calculateEventStartWithBuffer(evs[k])

isSlotAvailableWithBuffer(avail, evs, s, tz) ==
  LET slotStart == s.start
      slotEnd == calculateSlotEndTime(slotStart, s.durationM)
  IN IF ~isSlotWithinAvailabilityB(slotStart, slotEnd, avail, tz) THEN FALSE
     ELSE IF isSlotConflictedWithEventsB(slotStart, slotEnd, evs) THEN FALSE
     ELSE TRUE

---------------------------------------------------------------------------
(* isSlotAvailableWithEvents *)

\* [threw, value]: destructuring [startRange, endRange] of a range shorter than 2
\* leaves undefined, whose .hours is a TypeError
isSlotWithinAvailabilityE(slotStart, slotEnd, avail) ==
  LET availabilityForDay == findAvailabilityForWeekday(avail, getUTCDay(slotStart))
  IN IF availabilityForDay = 0 THEN Ok(FALSE)
     ELSE
       LET rng == avail.include[availabilityForDay].range
       IN IF Len(rng) < 2 THEN TypeError
          ELSE
            LET availableStart == setUTCHours(slotStart, rng[1].hours, rng[1].minutes)
                availableEnd == setUTCHours(slotStart, rng[2].hours, rng[2].minutes)
            IN Ok(slotStart >= availableStart /\ slotEnd <= availableEnd)

isSlotConflictedWithEventsE(slotStart, slotEnd, evs) ==
  \E k \in 1..Len(evs) : slotStart < evs[k].end /\ slotEnd > evs[k].start

isSlotAvailableWithEvents(avail, evs, s) ==
  LET slotStart == s.start
      slotEnd == calculateSlotEndTime(slotStart, s.durationM)
      within == isSlotWithinAvailabilityE(slotStart, slotEnd, avail)
  IN IF within.threw THEN TypeError
     ELSE IF ~within.value THEN Ok(FALSE)
     ELSE IF isSlotConflictedWithEventsE(slotStart, slotEnd, evs) THEN Ok(FALSE)
     ELSE Ok(TRUE)

---------------------------------------------------------------------------
(* isSlotAvailable *)

isSlotAvailable(avail, s) ==
  LET availableEntry == findAvailabilityForWeekday(avail, getUTCDay(s.start))
  IN IF availableEntry = 0 THEN Ok(FALSE)
     ELSE
       LET rng == avail.include[availableEntry].range
       IN IF Len(rng) < 2 THEN TypeError
          ELSE
            LET startAvailable == setUTCHours(s.start, rng[1].hours, rng[1].minutes)
                endAvailable == setUTCHours(s.start, rng[2].hours, rng[2].minutes)
                slotEnd == s.start + s.durationM
            IN Ok(s.start >= startAvailable /\ slotEnd <= endAvailable)

---------------------------------------------------------------------------
(* listAvailable30MinuteSlotsMultiplePerson *)

\* events.every(event => currentSlotEnd <= eventStart || currentSlotStart >= eventEnd)
attendeeIsFree(currentSlotStart, currentSlotEnd, evs) ==
  \A k \in 1..Len(evs) :
    LET eventStart == evs[k].start - bufferBefore(evs[k])
        eventEnd == evs[k].end + bufferAfter(evs[k])
    IN currentSlotEnd <= eventStart \/ currentSlotStart >= eventEnd

\* isAvailableForAll asking the first attendee only
isAvailableForFirst(atts, currentSlotStart, currentSlotEnd) ==
  Len(atts) = 0 \/ attendeeIsFree(currentSlotStart, currentSlotEnd, atts[1].events)

isAvailableForAll(atts, currentSlotStart, currentSlotEnd) ==
  \A a \in 1..Len(atts) : attendeeIsFree(currentSlotStart, currentSlotEnd, atts[a].events)

\* the while loop over one pair of the common range
RECURSIVE walkPair(_, _, _, _)
walkPair(atts, currentSlotStart, rangeEndTime, endRange) ==
  IF ~(currentSlotStart < rangeEndTime /\ currentSlotStart < endRange) THEN <<>>
  ELSE
    LET currentSlotEnd == currentSlotStart + SlotMinutes
    IN (IF isAvailableForAll(atts, currentSlotStart, currentSlotEnd)
        THEN <<[start |-> currentSlotStart, durationM |-> SlotMinutes]>>
        ELSE <<>>)
       \o walkPair(atts, currentSlotEnd, rangeEndTime, endRange)

\* for (let i = 0; i < commonRange.length - 1; i += 2), i being 1-based here
RECURSIVE walkCommonRange(_, _, _, _, _)
walkCommonRange(atts, commonRange, i, currentDate, endRange) ==
  IF ~(i < Len(commonRange)) THEN <<>>
  ELSE
    LET rangeStart == commonRange[i]
        rangeEnd == commonRange[i + 1]
        currentSlotStart == DateUTC(currentDate, rangeStart.hours, rangeStart.minutes)
        rangeEndTime == DateUTC(currentDate, rangeEnd.hours, rangeEnd.minutes)
    IN walkPair(atts, currentSlotStart, rangeEndTime, endRange)
       \o walkCommonRange(atts, commonRange, i + 2, currentDate, endRange)

\* commonAvailableRanges.reduce((acc, curr) => acc ? intersectRanges(acc, curr) : curr)
\* from element k on; acc is [threw, value]; an array, even empty, is truthy
RECURSIVE reduceRanges(_, _, _)
reduceRanges(ranges, k, acc) ==
  IF acc.threw \/ k > Len(ranges) THEN acc
  ELSE reduceRanges(ranges, k + 1, intersectRanges(acc.value, ranges[k]))

\* the common range of one day: [skip, threw, value]
commonRangeOfDay(atts, currentWeekday) ==
  LET found == [a \in 1..Len(atts) |->
                  findAvailabilityForWeekday(atts[a].availability, currentWeekday)]
      commonAvailableRanges ==
        [a \in 1..Len(atts) |-> atts[a].availability.include[found[a]].range]
  IN IF \E a \in 1..Len(atts) : found[a] = 0
     THEN [skip |-> TRUE, threw |-> FALSE, value |-> <<>>]
     ELSE IF Len(atts) = 0
     THEN [skip |-> FALSE, threw |-> TRUE, value |-> <<>>]
     ELSE LET r == reduceRanges(commonAvailableRanges, 2, Ok(commonAvailableRanges[1]))
          IN [skip |-> FALSE, threw |-> r.threw, value |-> r.value]

\* the body of the day loop for one currentDate: [threw, value]
multiSlotsOfDay(atts, currentDate, endRange) ==
  LET common == commonRangeOfDay(atts, getUTCDay(currentDate))
  IN IF common.skip THEN Ok(<<>>)
     ELSE IF common.threw THEN TypeError
     ELSE Ok(walkCommonRange(atts, common.value, 1, currentDate, endRange))

RECURSIVE multiSlotsOfDays(_, _, _, _, _)
multiSlotsOfDays(atts, days, d, endRange, acc) ==
  IF d > Len(days) THEN Ok(acc)
  ELSE LET today == multiSlotsOfDay(atts, days[d], endRange)
       IN IF today.threw THEN TypeError
          ELSE multiSlotsOfDays(atts, days, d + 1, endRange, acc \o today.value)

listAvailable30MinuteSlotsMultiplePerson(atts, rng) ==
  multiSlotsOfDays(atts, dayLoop(rng[1], rng[2]), 1, rng[2], <<>>)

---------------------------------------------------------------------------
(* Inputs *)

TimesOfDay ==
  { [hours |-> 9 + (k * 15) \div 60, minutes |-> (k * 15) % 60] : k \in 0..MaxTodSteps }

SeqsUpTo(S, n) == UNION { [1..k -> S] : k \in 0..n }

\* even length, each pair start < end, pairs sorted and non-overlapping
IsValidRange(r) ==
  /\ Len(r) % 2 = 0
  /\ \A k \in 1..Len(r) : k % 2 = 1 => minutesOf(r[k]) < minutesOf(r[k + 1])
  /\ \A k \in 1..Len(r) : (k % 2 = 0 /\ k < Len(r)) => minutesOf(r[k]) <= minutesOf(r[k + 1])

ValidRanges == { r \in SeqsUpTo(TimesOfDay, MaxRangeLen) : IsValidRange(r) }

\* a valid range that lost its last element: odd length
OddRanges == { SubSeq(r, 1, Len(r) - 1) : r \in ValidRanges \ {<<>>} }

RangeInputs == ValidRanges \cup OddRanges

NoInput == <<>>

\* 1970-01-04T00:00Z, a Sunday
Sunday0 == 3 * MinutesPerDay

DayStarts == { Sunday0 + d * MinutesPerDay : d \in 0..MaxDayOffset }

Tod(h, m) == [hours |-> h, minutes |-> m]

\* ranges of at most one pair, for the operations that read entries one by one
ShortRanges == { r \in RangeInputs : Len(r) <= 2 }

\* no entry, one Sunday entry, or the same entry for Sunday and Monday
AvailabilityOver(ranges) ==
  { [include |-> <<>>] }
  \cup { [include |-> <<[weekday |-> 0, range |-> r]>>] : r \in ranges }
  \cup { [include |-> <<[weekday |-> 0, range |-> r], [weekday |-> 1, range |-> r]>>] :
           r \in ranges \cap { <<Tod(9, 0), Tod(10, 0)>> } }

AvailabilityInputs == AvailabilityOver(ShortRanges)

\* the ranges of the attendees: three slots long, two pairs whose lengths are not
\* multiples of 30 minutes, and an odd-length range
AttendeeRanges ==
  { <<Tod(9, 0), Tod(10, 30)>>,
    <<Tod(9, 0), Tod(9, 45), Tod(9, 45), Tod(10, 0)>>,
    <<Tod(9, 0)>> }

NoBuffer == [present |-> FALSE, before |-> 0, after |-> 0]

WideBuffer == [present |-> TRUE, before |-> 10, after |-> 10]

BufferInputs ==
  { NoBuffer } \cup
  { [present |-> TRUE, before |-> p[1], after |-> p[2]] :
      p \in { <<10, 0>>, <<0, 10>>, <<10, 10>> } }

\* events of the first Sunday, start < end: 09:20-09:30 and 09:40-09:50
EventInputs ==
  { [start |-> Sunday0 + 9 * 60 + p[1], end |-> Sunday0 + 9 * 60 + p[2], buffer |-> b] :
      p \in { <<20, 30>>, <<40, 50>> }, b \in BufferInputs \ {WideBuffer} }

EventLists == SeqsUpTo(EventInputs, MaxEvents)

\* [startRange, endRange]: from 09:00 or 09:30 of the first Sunday to 09:45 or
\* 10:30 of that Sunday or 09:00 of the last day
DateRangeInputs ==
  { <<Sunday0 + 9 * 60 + s, e>> :
      s \in {0, 30},
      e \in { Sunday0 + 9 * 60 + 45, Sunday0 + 10 * 60 + 30,
              Sunday0 + MaxDayOffset * MinutesPerDay + 9 * 60 } }

SlotInputs ==
  { [start |-> t + 9 * 60 + o, durationM |-> d] :
      t \in DayStarts, o \in {-60, 0, 45}, d \in {30, 60} }

TimezoneInputs == {0, 60}

\* 09:20-09:30 without buffer, and 09:40-09:50 with 10 minutes on either side
AttendeeEvents ==
  { [start |-> Sunday0 + 9 * 60 + 20, end |-> Sunday0 + 9 * 60 + 30, buffer |-> NoBuffer],
    [start |-> Sunday0 + 9 * 60 + 40, end |-> Sunday0 + 9 * 60 + 50, buffer |-> WideBuffer] }

AttendeeInputs ==
  { [availability |-> a, events |-> e] :
      a \in { [include |-> <<>>] }
            \cup { [include |-> <<[weekday |-> 0, range |-> r]>>] : r \in AttendeeRanges },
      e \in SeqsUpTo(AttendeeEvents, MaxEvents) }

AttendeeLists == SeqsUpTo(AttendeeInputs, MaxAttendees)

MultiDateRangeInputs == { r \in DateRangeInputs : r[2] # Sunday0 + 10 * 60 + 30 }

---------------------------------------------------------------------------
(* Operations: every function is pure; a call records its arguments and its
   result, Return forgets them. *)

Init ==
  /\ op = "none"
  /\ availability = NoInput
  /\ events = NoInput
  /\ range = NoInput
  /\ slot = NoInput
  /\ attendees = NoInput
  /\ rangeA = NoInput
  /\ rangeB = NoInput
  /\ tzOffset = 0
  /\ result = NoInput

CallIntersectRanges ==
  /\ op = "none"
  /\ \E A \in RangeInputs, B \in RangeInputs :
       /\ op' = "intersectRanges"
       /\ rangeA' = A
       /\ rangeB' = B
       /\ result' = intersectRanges(A, B)
  /\ UNCHANGED <<availability, events, range, slot, attendees, tzOffset>>

CallListAvailable30MinuteSlots ==
  /\ op = "none"
  /\ \E a \in AvailabilityInputs, e \in EventLists, r \in DateRangeInputs :
       /\ op' = "listAvailable30MinuteSlots"
       /\ availability' = a
       /\ events' = e
       /\ range' = r
       /\ result' = Ok(listAvailable30MinuteSlots(a, e, r))
  /\ UNCHANGED <<slot, attendees, rangeA, rangeB, tzOffset>>

CallListAvailable30MinuteSlotsMultiplePerson ==
  /\ op = "none"
  /\ \E atts \in AttendeeLists, r \in MultiDateRangeInputs :
       /\ op' = "listAvailable30MinuteSlotsMultiplePerson"
       /\ attendees' = atts
       /\ range' = r
       /\ result' = listAvailable30MinuteSlotsMultiplePerson(atts, r)
  /\ UNCHANGED <<availability, events, slot, rangeA, rangeB, tzOffset>>

CallIsSlotAvailableWithBuffer ==
  /\ op = "none"
  /\ \E a \in AvailabilityInputs, e \in EventLists, s \in SlotInputs, tz \in TimezoneInputs :
       /\ op' = "isSlotAvailableWithBuffer"
       /\ availability' = a
       /\ events' = e
       /\ slot' = s
       /\ tzOffset' = tz
       /\ result' = Ok(isSlotAvailableWithBuffer(a, e, s, tz))
  /\ UNCHANGED <<range, attendees, rangeA, rangeB>>

CallIsSlotAvailableWithEvents ==
  /\ op = "none"
  /\ \E a \in AvailabilityInputs, s \in SlotInputs,
        e \in { l \in EventLists : \A k \in 1..Len(l) : ~l[k].buffer.present } :
       /\ op' = "isSlotAvailableWithEvents"
       /\ availability' = a
       /\ events' = e
       /\ slot' = s
       /\ result' = isSlotAvailableWithEvents(a, e, s)
  /\ UNCHANGED <<range, attendees, rangeA, rangeB, tzOffset>>

CallIsSlotAvailable ==
  /\ op = "none"
  /\ \E a \in AvailabilityInputs, s \in SlotInputs :
       /\ op' = "isSlotAvailable"
       /\ availability' = a
       /\ slot' = s
       /\ result' = isSlotAvailable(a, s)
  /\ UNCHANGED <<events, range, attendees, rangeA, rangeB, tzOffset>>

Return ==
  /\ op # "none"
  /\ op' = "none"
  /\ availability' = NoInput
  /\ events' = NoInput
  /\ range' = NoInput
  /\ slot' = NoInput
  /\ attendees' = NoInput
  /\ rangeA' = NoInput
  /\ rangeB' = NoInput
  /\ tzOffset' = 0
  /\ result' = NoInput

Next ==
  \/ CallIntersectRanges
  \/ CallListAvailable30MinuteSlots
  \/ CallListAvailable30MinuteSlotsMultiplePerson
  \/ CallIsSlotAvailableWithBuffer
  \/ CallIsSlotAvailableWithEvents
  \/ CallIsSlotAvailable
  \/ Return

Spec == Init /\ [][Next]_vars

NextIntersect == CallIntersectRanges \/ Return
SpecIntersect == Init /\ [][NextIntersect]_vars

NextSingle == CallListAvailable30MinuteSlots \/ Return
SpecSingle == Init /\ [][NextSingle]_vars

NextMulti == CallListAvailable30MinuteSlotsMultiplePerson \/ Return
SpecMulti == Init /\ [][NextMulti]_vars

NextValidators ==
  \/ CallIsSlotAvailableWithBuffer
  \/ CallIsSlotAvailableWithEvents
  \/ CallIsSlotAvailable
  \/ Return
SpecValidators == Init /\ [][NextValidators]_vars

---------------------------------------------------------------------------
(* Claims *)

SeqToSet(q) == { q[k] : k \in 1..Len(q) }

slotEndOf(s) == s.start + s.durationM

NoEventHasBuffer(evs) == \A k \in 1..Len(evs) : ~evs[k].buffer.present

IsValidAvailability(avail) ==
  \A k \in 1..Len(avail.include) : IsValidRange(avail.include[k].range)

\* C1: for a valid availability, every slot listAvailable30MinuteSlots returns is judged available by
\* isSlotAvailableWithBuffer (read in UTC), and by isSlotAvailableWithEvents when
\* no event carries a buffer, for the same availability and events.
C1_Containment ==
  (op = "listAvailable30MinuteSlots" /\ IsValidAvailability(availability)) =>
    \A k \in 1..Len(result.value) :
      /\ isSlotAvailableWithBuffer(availability, events, result.value[k], 0)
      /\ NoEventHasBuffer(events) =>
           isSlotAvailableWithEvents(availability, events, result.value[k]) = Ok(TRUE)

\* C2: every slot listAvailable30MinuteSlotsMultiplePerson returns ends at or
\* before the buffered start, or starts at or after the buffered end, of every
\* event of every attendee (an absent buffer counting as 0).
C2_UnanimousNonConflict ==
  (op = "listAvailable30MinuteSlotsMultiplePerson" /\ ~result.threw) =>
    \A k \in 1..Len(result.value) :
      \A a \in 1..Len(attendees) :
        \A e \in 1..Len(attendees[a].events) :
          LET ev == attendees[a].events[e]
              before == IF ev.buffer.present THEN ev.buffer.before ELSE 0
              after == IF ev.buffer.present THEN ev.buffer.after ELSE 0
          IN \/ slotEndOf(result.value[k]) <= ev.start - before
             \/ result.value[k].start >= ev.end + after

\* two attendees, each with an event, and a slot is still returned
C2_Witness ==
  /\ op = "listAvailable30MinuteSlotsMultiplePerson"
  /\ ~result.threw
  /\ Len(attendees) = 2
  /\ attendees[1].events # <<>>
  /\ attendees[2].events # <<>>
  /\ attendees[1].events # attendees[2].events
  /\ result.value # <<>>

\* C3: for valid availabilities, every slot
\* listAvailable30MinuteSlotsMultiplePerson returns lies inside
\* [rangeStart, rangeEnd] and inside one pair of the intersected availability of
\* its UTC day.
C3_SlotsInsideRangeAndAvailability ==
  (op = "listAvailable30MinuteSlotsMultiplePerson" /\ ~result.threw
     /\ \A a \in 1..Len(attendees) : IsValidAvailability(attendees[a].availability)) =>
    \A k \in 1..Len(result.value) :
      LET s == result.value[k]
          common == commonRangeOfDay(attendees, getUTCDay(s.start))
      IN /\ range[1] <= s.start
         /\ s.start + SlotMinutes <= range[2]
         /\ ~common.skip /\ ~common.threw
         /\ \E i \in 1..Len(common.value) :
              /\ i % 2 = 1 /\ i < Len(common.value)
              /\ DateUTC(s.start, common.value[i].hours, common.value[i].minutes) <= s.start
              /\ s.start + SlotMinutes
                   <= DateUTC(s.start, common.value[i + 1].hours, common.value[i + 1].minutes)

\* the sub-slots listAvailable30MinuteSlots tests: those it returns when no event
\* can conflict
CandidateSlots == listAvailable30MinuteSlots(availability, <<>>, range)

HalfOpenOverlap(s, ev) ==
  LET before == IF ev.buffer.present THEN ev.buffer.before ELSE 0
      after == IF ev.buffer.present THEN ev.buffer.after ELSE 0
  IN s.start < ev.end + after /\ slotEndOf(s) > ev.start - before

\* C4: in listAvailable30MinuteSlots the three-way conflict test of a candidate
\* sub-slot against an event (start < end, buffers >= 0) is true exactly when
\* slotStart < eventEnd + after and slotEnd > eventStart - before, so the slots
\* returned are the candidates no event overlaps; a candidate that only touches a
\* buffered event is returned.
C4_ThreeWayIsHalfOpen ==
  op = "listAvailable30MinuteSlots" =>
    LET candidates == CandidateSlots
    IN /\ \A c \in SeqToSet(candidates) :
            \A e \in 1..Len(events) :
              eventConflicts(c.start, slotEndOf(c), events[e])
                <=> HalfOpenOverlap(c, events[e])
       /\ result.value =
            SelectSeq(candidates,
                      LAMBDA c : \A e \in 1..Len(events) : ~HalfOpenOverlap(c, events[e]))

\* a returned slot ends exactly where a buffered event starts, another candidate
\* was rejected
C4_Witness ==
  /\ op = "listAvailable30MinuteSlots"
  /\ Len(events) = 1
  /\ events[1].buffer.present
  /\ \E k \in 1..Len(result.value) :
       slotEndOf(result.value[k]) = events[1].start - events[1].buffer.before
  /\ Len(result.value) < Len(CandidateSlots)

\* C5: for a valid availability, a verdict of true of isSlotAvailableWithBuffer or
\* isSlotAvailableWithEvents implies that the slot's UTC weekday has an entry and that the slot lies between
\* the entry's first two time-of-day values on the slot's UTC day.
C5_VerdictInsideFirstPair ==
  (op \in {"isSlotAvailableWithBuffer", "isSlotAvailableWithEvents"}
     /\ IsValidAvailability(availability) /\ result = Ok(TRUE)) =>
    LET entry == findAvailabilityForWeekday(availability, getUTCDay(slot.start))
    IN /\ entry # 0
       /\ Len(availability.include[entry].range) >= 2
       /\ LET rng == availability.include[entry].range
              availableStart == DateUTC(slot.start, rng[1].hours, rng[1].minutes)
              availableEnd == DateUTC(slot.start, rng[2].hours, rng[2].minutes)
          IN slot.start >= availableStart /\ slotEndOf(slot) <= availableEnd

\* the minutes of the day the model's times of day span
MinuteSpan == (9 * 60)..(9 * 60 + MaxTodSteps * 15)

Covered(r, m) ==
  \E k \in 1..Len(r) :
    k % 2 = 1 /\ k < Len(r) /\ minutesOf(r[k]) <= m /\ m < minutesOf(r[k + 1])

\* C6: for valid pair-sequences A and B, intersectRanges returns a valid
\* pair-sequence that covers a minute exactly when A and B both cover it.
C6_IntersectionIsValidAndExact ==
  (op = "intersectRanges" /\ IsValidRange(rangeA) /\ IsValidRange(rangeB)) =>
    /\ ~result.threw
    /\ IsValidRange(result.value)
    /\ \A m \in MinuteSpan :
         Covered(result.value, m) <=> (Covered(rangeA, m) /\ Covered(rangeB, m))

\* two pairs of A and B share an end time, and the result has two pairs
C6_Witness ==
  /\ op = "intersectRanges"
  /\ IsValidRange(rangeA) /\ IsValidRange(rangeB)
  /\ Len(rangeA) = 4 /\ Len(rangeB) = 4
  /\ rangeA # rangeB
  /\ rangeA[2] = rangeB[2]
  /\ ~result.threw
  /\ Len(result.value) = 4

\* C7: no operation raises an exception on an empty or odd-length range, an
\* absent weekday entry or an empty attendee list.
C7_NoOperationThrows ==
  op # "none" => ~result.threw

\* C8: the list listAvailable30MinuteSlots returns for a valid availability is in
\* strictly ascending order of start time.
C8_AscendingStarts ==
  (op = "listAvailable30MinuteSlots" /\ IsValidAvailability(availability)) =>
    \A k \in 1..Len(result.value) :
      k < Len(result.value) => result.value[k].start < result.value[k + 1].start

BufferGeq(b2, b1) ==
  /\ b2.present
  /\ b2.before >= (IF b1.present THEN b1.before ELSE 0)
  /\ b2.after >= (IF b1.present THEN b1.after ELSE 0)

WithBuffer(evs, k, b) == [evs EXCEPT ![k] = [@ EXCEPT !.buffer = b]]

\* C9: replacing one event's buffer by one at least as large on both sides never
\* adds a slot to the result of either enumerator and never turns a false verdict
\* of isSlotAvailableWithBuffer into true.
C9_BufferMonotonicity ==
  /\ op = "listAvailable30MinuteSlots" =>
       \A k \in 1..Len(events) :
         \A b \in { x \in BufferInputs : BufferGeq(x, events[k].buffer) } :
           SeqToSet(listAvailable30MinuteSlots(availability, WithBuffer(events, k, b), range))
             \subseteq SeqToSet(result.value)
  /\ op = "listAvailable30MinuteSlotsMultiplePerson" =>
       \A a \in 1..Len(attendees) :
         \A k \in 1..Len(attendees[a].events) :
           \A b \in { x \in BufferInputs : BufferGeq(x, attendees[a].events[k].buffer) } :
             LET atts2 == [attendees EXCEPT ![a] =
                             [@ EXCEPT !.events = WithBuffer(attendees[a].events, k, b)]]
                 res2 == listAvailable30MinuteSlotsMultiplePerson(atts2, range)
             IN /\ res2.threw = result.threw
                /\ SeqToSet(res2.value) \subseteq SeqToSet(result.value)
  /\ op = "isSlotAvailableWithBuffer" =>
       \A k \in 1..Len(events) :
         \A b \in { x \in BufferInputs : BufferGeq(x, events[k].buffer) } :
           result.value = FALSE =>
             ~isSlotAvailableWithBuffer(availability, WithBuffer(events, k, b), slot, tzOffset)

\* a larger buffer on the one event removes a slot that was returned
C9_Witness ==
  /\ op = "listAvailable30MinuteSlots"
  /\ Len(events) = 1
  /\ result.value # <<>>
  /\ \E b \in { x \in BufferInputs : BufferGeq(x, events[1].buffer) } :
       SeqToSet(listAvailable30MinuteSlots(availability, WithBuffer(events, 1, b), range))
         # SeqToSet(result.value)

UTCDayOf(t) == t \div MinutesPerDay

\* C10: for rangeStart <= rangeEnd the day loop of the enumerators visits every
\* UTC day from the day of rangeStart to the day of rangeEnd exactly once.
C10_EveryDayVisitedOnce ==
  (op \in {"listAvailable30MinuteSlots", "listAvailable30MinuteSlotsMultiplePerson"}
     /\ range[1] <= range[2]) =>
    LET visited == dayLoop(range[1], range[2])
    IN /\ { UTCDayOf(visited[k]) : k \in 1..Len(visited) }
            = UTCDayOf(range[1])..UTCDayOf(range[2])
       /\ \A i, j \in 1..Len(visited) :
            UTCDayOf(visited[i]) = UTCDayOf(visited[j]) => i = j

=============================================================================
